---- MODULE Spec2Model ----
(***************************************************************************)
(* trace-dump (tools/trace-parser/trace-tools/src/bin/trace-dump.rs).      *)
(*                                                                         *)
(* One behaviour of the model is one invocation of the binary, from the    *)
(* point where Cli::parse() has returned a Cli value to the point where    *)
(* main() has returned its ExitCode.  The program is single threaded, so   *)
(* the statements of _main are taken one after the other; `pc` is the      *)
(* position in _main / main.                                               *)
(*                                                                         *)
(* Timestamp is u64 in the program.  The model keeps the width as TsWidth  *)
(* bits and computes `prev + 2` modulo 2^TsWidth, which is what the        *)
(* addition does in a build without overflow checks (the release profile). *)
(* In a build with overflow checks the same inputs make the addition panic *)
(* instead of wrapping.                                                    *)
(*                                                                         *)
(* print_events, dump_events, check_header and dump_header_metadata live   *)
(* in the library crate; they are modelled at their interface: they return *)
(* Ok or an error carrying a top-level description and an ordered list of  *)
(* sub-errors, and dump_events calls the timestamp closure it was given    *)
(* once per event, in order.                                               *)
(***************************************************************************)
EXTENDS Integers, Sequences, FiniteSets, TLC

VARIABLES
    command,            \* cli.command variant
    unique_timestamps,  \* Command::Parquet { unique_timestamps }
    errors_json,        \* cli.errors_json.is_some()
    events,             \* timestamps of the events stored in the trace file
    pc,                 \* position in _main / main
    prev,               \* state captured by the make_unique_timestamps closure
    make_ts,            \* closure handed to dump_events
    idx,                \* events dump_events has consumed
    exported,           \* timestamps dump_events handed to the columnar writer
    res,                \* value of `res` (line 99)
    ret,                \* value returned by _main
    stderr,             \* lines written with eprintln!
    artifact,           \* file at the --errors-json path
    exit_code,          \* ExitCode returned by main, -1 while running
    log                 \* observable steps of the invocation, in order

vars == <<command, unique_timestamps, errors_json, events, pc, prev, make_ts,
          idx, exported, res, ret, stderr, artifact, exit_code, log>>

-----------------------------------------------------------------------------
(* Bounds *)

TsWidth == 7
MaxEvents == 3
MaxErrors == 2

-----------------------------------------------------------------------------
(* Program constants *)

Gap == 2
InitialPrev == 0
ExitSuccess == 0
ExitFailure == 1

-----------------------------------------------------------------------------
(* Value spaces *)

TsModulus == 2 ^ TsWidth
MaxTs == TsModulus - 1

\* Timestamps a trace of the model may hold: the low end, the values of the
\* documented example, and the top of the representable range.
TsValues == {0, 100, 105, MaxTs}

Commands == {"HumanReadable", "Parquet", "CheckHeader", "Metadata"}

ErrorKinds == {"io", "format"}
Descriptions == {"d1", "d2"}

SeqsUpTo(S, n) == UNION {[1 .. k -> S] : k \in 0 .. n}

Max(a, b) == IF a >= b THEN a ELSE b

Count(s, S) == Cardinality({i \in 1 .. Len(s) : s[i] \in S})

\* index of the first element of s that is in S, 0 when there is none
First(s, S) ==
    IF \E i \in 1 .. Len(s) : s[i] \in S
    THEN CHOOSE i \in 1 .. Len(s) : s[i] \in S /\ \A j \in 1 .. i - 1 : s[j] \notin S
    ELSE 0

-----------------------------------------------------------------------------
(* Pure parts of _main *)

\* line 91: prev = max(ts, prev + 2), on u64
make_unique_timestamps(p, ts) == Max(ts, (p + Gap) % TsModulus)

\* lines 112-116, with the uniqueness flag ignored
SelectMakeTs_AlwaysUnique(unique) == "unique"

\* lines 112-116
SelectMakeTs(unique) == IF unique THEN "unique" ELSE "identity"

\* lines 100-133, with the Metadata arm calling the CheckHeader arm's function
PipelineOf_MetadataChecksHeader(cmd) ==
    CASE cmd = "HumanReadable" -> "print_events"
      [] cmd = "Parquet"       -> "dump_events"
      [] cmd = "CheckHeader"   -> "check_header"
      [] cmd = "Metadata"      -> "check_header"

\* the library function each match arm calls (lines 100-133)
PipelineOf(cmd) ==
    CASE cmd = "HumanReadable" -> "print_events"
      [] cmd = "Parquet"       -> "dump_events"
      [] cmd = "CheckHeader"   -> "check_header"
      [] cmd = "Metadata"      -> "dump_header_metadata"

\* err.to_string() of one sub-error
to_string(e) == <<"error", e>>

\* lines 142-149, with the sub-errors collected last to first
CollectErrors_Reversed(r) ==
    IF r.tag = "Err"
    THEN [i \in 1 .. Len(r.errs) |-> to_string(r.errs[Len(r.errs) + 1 - i])]
    ELSE <<>>

\* lines 142-149
CollectErrors(r) ==
    IF r.tag = "Err"
    THEN [i \in 1 .. Len(r.errs) |-> to_string(r.errs[i])]
    ELSE <<>>

\* serde_json::json!({ "errors": errors }), lines 151-153
JsonValue(errors) == [errors |-> errors]

\* lines 156-159, with the pipeline's failure dropped once it has been reported
FinalResult_AlwaysOk(r) == [tag |-> "Ok", msg |-> ""]

\* lines 156-159
FinalResult(r) ==
    IF r.tag = "Ok" THEN [tag |-> "Ok", msg |-> ""]
    ELSE [tag |-> "Err", msg |-> "Errors happened"]

\* lines 163-169
ExitCodeOf(r) == IF r.tag = "Err" THEN ExitFailure ELSE ExitSuccess

\* line 138, with the description left out of the message
DiagnosticOf_NoDescription(r) == <<"Errors happened while processing the trace: ", "">>

\* line 138: eprintln!("Errors happened while processing the trace: {err}")
DiagnosticOf(r) == <<"Errors happened while processing the trace: ", r.top>>

\* line 165: eprintln!("{err}")
MainDiagnosticOf(r) == <<"", r.msg>>

NoRes == [tag |-> "none", top |-> "", errs |-> <<>>]
OkRes == [tag |-> "Ok", top |-> "", errs |-> <<>>]
ErrRes(top, errs) == [tag |-> "Err", top |-> top, errs |-> errs]
PipelineResults ==
    {OkRes} \cup {ErrRes(t, e) : t \in Descriptions, e \in SeqsUpTo(ErrorKinds, MaxErrors)}

NoRet == [tag |-> "none", msg |-> ""]
NoArtifact == [state |-> "absent", doc |-> JsonValue(<<>>)]

-----------------------------------------------------------------------------
(* State after Cli::parse() and lines 79-97 *)

Init ==
    /\ command \in Commands
    /\ unique_timestamps \in BOOLEAN
    /\ (command # "Parquet" => unique_timestamps = FALSE)
    /\ errors_json \in BOOLEAN
    /\ events \in SeqsUpTo(TsValues, MaxEvents)
    /\ pc = "start"
    /\ prev = InitialPrev
    /\ make_ts = "none"
    /\ idx = 0
    /\ exported = <<>>
    /\ res = NoRes
    /\ ret = NoRet
    /\ stderr = <<>>
    /\ artifact = NoArtifact
    /\ exit_code = -1
    /\ log = <<>>

-----------------------------------------------------------------------------
(* _main, lines 99-134: the match on cli.command *)

\* open_trace (lines 79-84) returns Ok((header, reader)); the Parquet arm then
\* picks the timestamp closure (lines 112-116).
OpenTraceOk ==
    /\ pc = "start"
    /\ pc' = "dispatched"
    /\ make_ts' = IF command = "Parquet" THEN SelectMakeTs(unique_timestamps) ELSE make_ts
    /\ log' = Append(log, "open_ok")
    /\ UNCHANGED <<command, unique_timestamps, errors_json, events, prev, idx,
                   exported, res, ret, stderr, artifact, exit_code>>

\* File::open, MmapFile::new or header::header fails; `?` returns from _main.
OpenTraceFail ==
    /\ pc = "start"
    /\ \E kind \in {"open", "mmap", "header"} :
           ret' = [tag |-> "Err", msg |-> kind]
    /\ pc' = "returned"
    /\ log' = Append(log, "open_fail")
    /\ UNCHANGED <<command, unique_timestamps, errors_json, events, prev, make_ts,
                   idx, exported, res, stderr, artifact, exit_code>>

\* print_events / check_header / dump_header_metadata: one call, one result.
RunPipeline(cmd) ==
    /\ pc = "dispatched"
    /\ command = cmd
    /\ res' \in PipelineResults
    /\ pc' = "flush"
    /\ log' = log \o <<PipelineOf(command), "return">>
    /\ UNCHANGED <<command, unique_timestamps, errors_json, events, prev, make_ts,
                   idx, exported, ret, stderr, artifact, exit_code>>

PrintEvents == RunPipeline("HumanReadable")
CheckHeader == RunPipeline("CheckHeader")
DumpHeaderMetadata == RunPipeline("Metadata")

\* dump_events is called with the boxed closure (line 124).
DumpEventsCall ==
    /\ pc = "dispatched"
    /\ command = "Parquet"
    /\ pc' = "dump_events"
    /\ log' = Append(log, PipelineOf(command))
    /\ UNCHANGED <<command, unique_timestamps, errors_json, events, prev, make_ts,
                   idx, exported, res, ret, stderr, artifact, exit_code>>

\* dump_events passes the next event's timestamp through the closure.
DumpEventsStep ==
    /\ pc = "dump_events"
    /\ idx < Len(events)
    /\ LET ts == events[idx + 1]
           out == IF make_ts = "unique" THEN make_unique_timestamps(prev, ts) ELSE ts
       IN /\ exported' = Append(exported, out)
          /\ prev' = IF make_ts = "unique" THEN out ELSE prev
    /\ idx' = idx + 1
    /\ UNCHANGED <<command, unique_timestamps, errors_json, events, pc, make_ts,
                   res, ret, stderr, artifact, exit_code, log>>

\* dump_events returns once the event stream is exhausted.
DumpEventsReturn ==
    /\ pc = "dump_events"
    /\ idx = Len(events)
    /\ res' \in PipelineResults
    /\ pc' = "flush"
    /\ log' = Append(log, "return")
    /\ UNCHANGED <<command, unique_timestamps, errors_json, events, prev, make_ts,
                   idx, exported, ret, stderr, artifact, exit_code>>

-----------------------------------------------------------------------------
(* _main, lines 135-159 *)

\* line 135 left out: the writer is dropped without an explicit flush
Flush_Omitted ==
    /\ pc = "flush"
    /\ pc' = "report"
    /\ UNCHANGED <<command, unique_timestamps, errors_json, events, prev, make_ts,
                   idx, exported, res, ret, stderr, artifact, exit_code, log>>

\* line 135: out.flush()?
Flush ==
    /\ pc = "flush"
    /\ \/ /\ pc' = "report"
          /\ log' = Append(log, "flush_ok")
          /\ UNCHANGED ret
       \/ /\ pc' = "returned"
          /\ ret' = [tag |-> "Err", msg |-> "flush"]
          /\ log' = Append(log, "flush_fail")
    /\ UNCHANGED <<command, unique_timestamps, errors_json, events, prev, make_ts,
                   idx, exported, res, stderr, artifact, exit_code>>

\* lines 137-139
ReportErrors ==
    /\ pc = "report"
    /\ IF res.tag = "Err"
       THEN /\ stderr' = Append(stderr, DiagnosticOf(res))
            /\ log' = Append(log, "eprintln_res")
       ELSE UNCHANGED <<stderr, log>>
    /\ pc' = "errors_json"
    /\ UNCHANGED <<command, unique_timestamps, errors_json, events, prev, make_ts,
                   idx, exported, res, ret, artifact, exit_code>>

\* lines 141-155; `requested` is the test of line 141
ErrorsJsonStep(requested) ==
    /\ pc = "errors_json"
    /\ IF requested
       THEN LET errors == CollectErrors(res) IN
            \/ \* File::create(path)? fails
               /\ ret' = [tag |-> "Err", msg |-> "create"]
               /\ pc' = "returned"
               /\ log' = Append(log, "create_fail")
               /\ UNCHANGED artifact
            \/ \* file.write_all(..)? fails after the file was created
               /\ ret' = [tag |-> "Err", msg |-> "write"]
               /\ pc' = "returned"
               /\ artifact' = [state |-> "partial", doc |-> JsonValue(<<>>)]
               /\ log' = Append(log, "write_fail")
            \/ /\ artifact' = [state |-> "written", doc |-> JsonValue(errors)]
               /\ pc' = "result"
               /\ log' = Append(log, "write_ok")
               /\ UNCHANGED ret
       ELSE /\ pc' = "result"
            /\ UNCHANGED <<ret, artifact, log>>
    /\ UNCHANGED <<command, unique_timestamps, errors_json, events, prev, make_ts,
                   idx, exported, res, stderr, exit_code>>

\* lines 141-155, writing the artifact only for a failed pipeline
WriteErrorsJson_OnlyOnFailure == ErrorsJsonStep(errors_json /\ res.tag = "Err")

\* lines 141-155: if let Some(path) = &cli.errors_json
WriteErrorsJson == ErrorsJsonStep(errors_json)

\* lines 156-159
Return ==
    /\ pc = "result"
    /\ ret' = FinalResult(res)
    /\ pc' = "returned"
    /\ UNCHANGED <<command, unique_timestamps, errors_json, events, prev, make_ts,
                   idx, exported, res, stderr, artifact, exit_code, log>>

-----------------------------------------------------------------------------
(* main, lines 162-170 *)

Main ==
    /\ pc = "returned"
    /\ IF ret.tag = "Err"
       THEN /\ stderr' = Append(stderr, MainDiagnosticOf(ret))
            /\ log' = log \o <<"eprintln_main", "exit">>
       ELSE /\ stderr' = stderr
            /\ log' = Append(log, "exit")
    /\ exit_code' = ExitCodeOf(ret)
    /\ pc' = "exited"
    /\ UNCHANGED <<command, unique_timestamps, errors_json, events, prev, make_ts,
                   idx, exported, res, ret, artifact>>

Next ==
    \/ OpenTraceOk
    \/ OpenTraceFail
    \/ PrintEvents
    \/ CheckHeader
    \/ DumpHeaderMetadata
    \/ DumpEventsCall
    \/ DumpEventsStep
    \/ DumpEventsReturn
    \/ Flush
    \/ ReportErrors
    \/ WriteErrorsJson
    \/ Return
    \/ Main

Spec == Init /\ [][Next]_vars

-----------------------------------------------------------------------------
(* Vocabulary of the properties *)

Pipelines == {"print_events", "dump_events", "check_header", "dump_header_metadata"}
OpenEvents == {"open_ok", "open_fail"}
FlushEvents == {"flush_ok", "flush_fail"}
ArtifactEvents == {"create_fail", "write_fail", "write_ok"}
DiagnosticEvents == {"eprintln_res", "eprintln_main"}
FailedSteps == {"open_fail", "flush_fail", "create_fail", "write_fail"}

Exited == pc = "exited"
Acquired == Count(log, {"open_ok"}) > 0
PipelineReturned == Count(log, {"return"}) > 0
Flushed == Count(log, {"flush_ok"}) > 0

IsNonDecreasing(s) == \A i \in 2 .. Len(s) : s[i - 1] <= s[i]

\* every element of `later` occurs in s only after an element of `earlier`
Precedes(s, earlier, later) ==
    \A i \in 1 .. Len(s) : s[i] \in later => \E j \in 1 .. i - 1 : s[j] \in earlier

-----------------------------------------------------------------------------
(* Timestamp normalizer *)

\* C1: for non-decreasing input timestamps, consecutive outputs of the
\* normalizer differ by at least 2 (so the outputs are strictly increasing).
C1_OutputsGapped ==
    (make_ts = "unique" /\ IsNonDecreasing(SubSeq(events, 1, idx)))
        => \A i \in 2 .. Len(exported) : exported[i] - exported[i - 1] >= 2

\* C2: every output is max(t, prev + 2) with prev the previous output (0 before
\* the first call), prev is the last output after the call, every output is
\* >= its input, and [100, 100, 105] is exported as [100, 102, 105].
C2_MaxOfInputAndPrevPlusGap ==
    make_ts = "unique" =>
        /\ prev = IF exported = <<>> THEN 0 ELSE exported[Len(exported)]
        /\ \A i \in 1 .. Len(exported) :
              /\ exported[i] = Max(events[i], (IF i = 1 THEN 0 ELSE exported[i - 1]) + 2)
              /\ exported[i] >= events[i]
        /\ (events = <<100, 100, 105>> /\ idx = 3) => exported = <<100, 102, 105>>

\* C10: over the whole w-bit range and for inputs in any order, each output
\* of the normalizer is strictly greater than the output before it.
C10_StrictlyIncreasingAnyOrder ==
    make_ts = "unique" => \A i \in 2 .. Len(exported) : exported[i] > exported[i - 1]

-----------------------------------------------------------------------------
(* Error artifact *)

\* C3 as stated: with a path supplied every invocation, however it ends, has
\* written the artifact when the process exits; with no path none is written.
C3_ArtifactOnEveryExit ==
    /\ (Exited /\ errors_json) => artifact.state = "written"
    /\ ~errors_json => artifact.state = "absent"

\* C3 amended: with a path supplied, every invocation that acquired the trace
\* and flushed the output attempts the artifact exactly once before exiting,
\* for a succeeded and for a failed pipeline alike, and the artifact is written
\* unless creating or writing the file fails; an invocation whose trace
\* acquisition or flush fails exits without touching the path; with no path
\* supplied no artifact is ever written.
C3_ArtifactWhenReportingReached ==
    /\ ~errors_json => (artifact = NoArtifact /\ Count(log, ArtifactEvents) = 0)
    /\ ~Flushed => (artifact = NoArtifact /\ Count(log, ArtifactEvents) = 0)
    /\ (Exited /\ errors_json /\ Flushed) =>
          /\ Count(log, ArtifactEvents) = 1
          /\ First(log, ArtifactEvents) < First(log, {"exit"})
          /\ (artifact.state = "written") <=> (ret.msg \notin {"create", "write"})

C3_Witness ==
    /\ Exited
    /\ errors_json
    /\ res.tag = "Ok"
    /\ artifact.state = "written"
    /\ exit_code = 0

\* C6: a written artifact has the single field "errors"; for a failed pipeline
\* it lists the descriptions of the pipeline's sub-errors, same length and same
\* order; for a succeeded pipeline it is the empty list.
C6_ArtifactListsSubErrors ==
    artifact.state = "written" =>
        /\ DOMAIN artifact.doc = {"errors"}
        /\ LET listed == artifact.doc.errors IN
           IF res.tag = "Err"
           THEN /\ Len(listed) = Len(res.errs)
                /\ \A i \in 1 .. Len(res.errs) : listed[i] = to_string(res.errs[i])
           ELSE listed = <<>>

C6_Witness ==
    /\ artifact.state = "written"
    /\ res.tag = "Err"
    /\ res.errs = <<"io", "format">>

-----------------------------------------------------------------------------
(* Exit status *)

\* C4: the exit status is 0 only if the selected pipeline ran and returned
\* success, and every invocation in which a step failed (trace acquisition,
\* the pipeline, the flush, the artifact) exits with status 1.
C4_UniformExitStatus ==
    /\ ~Exited => exit_code = -1
    /\ Exited =>
          /\ exit_code \in {0, 1}
          /\ exit_code = 0 => (Count(log, Pipelines) = 1 /\ res.tag = "Ok")
          /\ (res.tag = "Err" \/ Count(log, FailedSteps) > 0) => exit_code = 1

C4_Witness ==
    /\ Exited
    /\ res.tag = "Err"
    /\ Len(res.errs) = 2
    /\ Flushed
    /\ exit_code = 1

-----------------------------------------------------------------------------
(* Flush *)

\* C5 as stated: the writer is flushed exactly once per invocation, after the
\* pipeline completes and before any diagnostic or artifact is written.
C5_FlushedOncePerInvocation ==
    /\ Count(log, FlushEvents) <= 1
    /\ Exited => Count(log, FlushEvents) = 1
    /\ Precedes(log, {"return"}, FlushEvents)
    /\ Precedes(log, FlushEvents, DiagnosticEvents \cup ArtifactEvents)

\* C5 amended: in every invocation whose pipeline returns (success or failure)
\* the writer is flushed exactly once, after the pipeline returns and before
\* any diagnostic or artifact is written; an invocation whose trace
\* acquisition fails runs no pipeline, never flushes, and writes its
\* diagnostic without a flush before it.
C5_FlushedOnceAfterPipeline ==
    /\ Count(log, FlushEvents) <= 1
    /\ Precedes(log, {"return"}, FlushEvents)
    /\ (Exited /\ PipelineReturned) => Count(log, FlushEvents) = 1
    /\ PipelineReturned => Precedes(log, FlushEvents, DiagnosticEvents \cup ArtifactEvents)
    /\ (Exited /\ ~PipelineReturned) =>
          /\ Count(log, FlushEvents) = 0
          /\ Count(log, {"open_fail"}) = 1
          /\ Count(log, {"eprintln_main"}) = 1

C5_Witness ==
    /\ Exited
    /\ res.tag = "Err"
    /\ errors_json
    /\ log = <<"open_ok", "print_events", "return", "flush_ok", "eprintln_res",
               "write_ok", "eprintln_main", "exit">>

-----------------------------------------------------------------------------
(* Diagnostics *)

\* C7 as stated: a failing invocation writes exactly one diagnostic line; for
\* a pipeline failure that line carries the pipeline's description and is
\* written right after the flush and before the artifact.
C7_OneDiagnosticLine ==
    /\ (Exited /\ exit_code = 1) => Len(stderr) = 1
    /\ (Exited /\ res.tag = "Err") =>
          /\ stderr[1] = <<"Errors happened while processing the trace: ", res.top>>
          /\ First(log, {"eprintln_res"}) = First(log, FlushEvents) + 1
          /\ Precedes(log, {"eprintln_res"}, ArtifactEvents)

\* C7 amended: every failing invocation writes at least one diagnostic line,
\* and a succeeding one writes none.  main writes one line, the error _main
\* returned, as the last thing before exit.  When the pipeline failed and the
\* flush succeeded, _main has before that written the line carrying the
\* pipeline's description, right after the flush and before the artifact, so
\* that invocation writes two lines; when the flush failed that line is not
\* written.
C7_DiagnosticLines ==
    /\ Len(stderr) = Count(log, DiagnosticEvents)
    /\ Exited =>
          /\ exit_code = 0 => stderr = <<>>
          /\ exit_code = 1 =>
                /\ Len(stderr) >= 1
                /\ stderr[Len(stderr)] = <<"", ret.msg>>
                /\ log[Len(log) - 1] = "eprintln_main"
          /\ Len(stderr) = (IF exit_code = 1 THEN 1 ELSE 0)
                           + (IF res.tag = "Err" /\ Flushed THEN 1 ELSE 0)
    /\ (res.tag = "Err" /\ Flushed /\ pc # "report") =>
          /\ stderr[1] = <<"Errors happened while processing the trace: ", res.top>>
          /\ First(log, {"eprintln_res"}) = First(log, {"flush_ok"}) + 1
          /\ Precedes(log, {"eprintln_res"}, ArtifactEvents)
    /\ (res.tag # "Err" \/ ~Flushed) => Count(log, {"eprintln_res"}) = 0

C7_Witness ==
    /\ Exited
    /\ res.tag = "Err"
    /\ res.top = "d2"
    /\ errors_json
    /\ artifact.state = "written"
    /\ Len(stderr) = 2

-----------------------------------------------------------------------------
(* Dispatch *)

Idle == pc = "start"
Dispatched == pc \in {"dispatched", "dump_events"}
Completed == PipelineReturned

SelectedBy(cmd, fn) ==
    \/ cmd = "HumanReadable" /\ fn = "print_events"
    \/ cmd = "Parquet" /\ fn = "dump_events"
    \/ cmd = "CheckHeader" /\ fn = "check_header"
    \/ cmd = "Metadata" /\ fn = "dump_header_metadata"

\* C8 as stated: exactly one pipeline runs per invocation, the one the command
\* selects, it runs once and is never retried, and the trace is acquired
\* exactly once.
C8_ExactlyOnePipeline ==
    /\ Count(log, Pipelines) <= 1
    /\ \A i \in 1 .. Len(log) : log[i] \in Pipelines => SelectedBy(command, log[i])
    /\ Exited =>
          /\ Count(log, Pipelines) = 1
          /\ Count(log, {"return"}) = 1
          /\ Count(log, {"open_ok"}) = 1

\* C8 amended: at most one pipeline runs per invocation and it is the one the
\* command selects; it is entered only after the trace was acquired, returns
\* once, and nothing is run after it returned.  The trace acquisition is
\* attempted exactly once; when it succeeds exactly one pipeline runs, and
\* when it fails the invocation ends without running any pipeline.
C8_AtMostOnePipeline ==
    /\ Count(log, Pipelines) <= 1
    /\ Count(log, {"return"}) <= 1
    /\ Count(log, OpenEvents) <= 1
    /\ \A i \in 1 .. Len(log) : log[i] \in Pipelines => SelectedBy(command, log[i])
    /\ Precedes(log, {"open_ok"}, Pipelines)
    /\ Precedes(log, Pipelines, {"return"})
    /\ \A i \in 1 .. Len(log) : \A j \in 1 .. i - 1 :
          log[j] = "return" => log[i] \notin Pipelines \cup OpenEvents
    /\ Idle => log = <<>>
    /\ Dispatched => (Acquired /\ ~Completed)
    /\ Exited =>
          /\ Count(log, OpenEvents) = 1
          /\ Acquired => (Count(log, Pipelines) = 1 /\ Completed)
          /\ ~Acquired => (Count(log, Pipelines) = 0 /\ ~Completed)

C8_Witness ==
    /\ Exited
    /\ command = "Metadata"
    /\ Acquired
    /\ Count(log, {"dump_header_metadata"}) = 1
    /\ exit_code = 0

\* C9: the normalizer runs only in the Parquet pipeline with uniqueness
\* requested; without it the exported timestamps are the input timestamps and
\* no state is carried; the other pipelines never call the normalizer and
\* leave its state alone.
C9_NormalizerOnlyWhenRequested ==
    /\ make_ts = "unique" => (command = "Parquet" /\ unique_timestamps)
    /\ (command = "Parquet" /\ Acquired) =>
          make_ts = (IF unique_timestamps THEN "unique" ELSE "identity")
    /\ make_ts # "unique" =>
          /\ prev = 0
          /\ exported = SubSeq(events, 1, idx)
    /\ command # "Parquet" =>
          /\ make_ts = "none"
          /\ exported = <<>>
          /\ idx = 0

C9_Witness ==
    /\ command = "Parquet"
    /\ ~unique_timestamps
    /\ events = <<100, 100, 105>>
    /\ exported = <<100, 100, 105>>
    /\ Exited

====
